---- MODULE Spec2Model ----
(***************************************************************************)
(* Model of src/src/internal-apigateway.ts: the constructor of the        *)
(* abstract class InternalApiGateway.  The constructor is a single        *)
(* synchronous pass; it is modelled statement by statement (pc) so that   *)
(* the order of the resource creations and the point of an exception are  *)
(* visible.  After a successful construction the resource policy can be   *)
(* evaluated against an invoke request (Invoke).                          *)
(*                                                                         *)
(* Conventions.                                                            *)
(*  - An optional / possibly undefined JavaScript value is a sequence of   *)
(*    length 0 (undefined) or 1 (the value): None, Some(x).                *)
(*  - Construct identifiers and string forms are sequences of one-char    *)
(*    strings, so that template literals are real concatenations.         *)
(*  - `new X(this, id, p)` registers a child named id under this          *)
(*    construct.  The construct tree normalises a name (every "/", the    *)
(*    path separator, becomes "--") and refuses a second child of the     *)
(*    same normalised name by throwing, which aborts the constructor.     *)
(*  - A domain is an object (obj) whose string form is the path of        *)
(*    construct names it sits at; two objects may have equal paths (two   *)
(*    construct trees), and a name may itself contain "--".               *)
(***************************************************************************)
EXTENDS Integers, Sequences, FiniteSets

VARIABLES
    id,                 \* constructor argument id
    props,              \* constructor argument props (InternalApiGatewayProps)
    pc,                 \* position in the constructor
    apiResourcePolicy,  \* const apiResourcePolicy (None until built)
    apiGateway,         \* this.apiGateway: name of the RestApi child (None until set)
    children,           \* children of this construct, in creation order
    attempts,           \* the BasePathMapping constructions started, in order
    i,                  \* position of the for..of loop in props.domains
    lastInvoke          \* evaluation of the policy for the last invoke request

vars == <<id, props, pc, apiResourcePolicy, apiGateway, children, attempts, i, lastInvoke>>

\* ------------------------------------------------------------------ bounds

MaxDomains == 3

\* ------------------------------------------------------------- option type

None == <<>>
Some(x) == <<x>>
IsSet(o) == Len(o) = 1
Val(o) == o[1]

\* ------------------------------------------------------------ input pools

\* Domain objects (apigateway.IDomainName): constructs, identified by the
\* path of construct names from the root of the tree.
DomainPool ==
    { [obj |-> 1, path |-> << <<"A">> >>],
      [obj |-> 2, path |-> << <<"S">>, <<"A">> >>],
      [obj |-> 3, path |-> << <<"S", "-", "-", "A">> >>],
      [obj |-> 4, path |-> << <<"S">>, <<"A">> >>],
      [obj |-> 5, path |-> << <<"T">>, <<"A">> >>] }

VpcEndpointPool == { [vpcEndpointId |-> "vpce-1"], [vpcEndpointId |-> "vpce-2"] }

StagePool == { "prod", "dev" }

BasePathPool == { "", "v1" }

BinaryMediaTypesPool == { <<>>, <<"application/octet-stream">> }

CompressionSizePool == { 0, 1024 }

IdPool == { <<"g", "w">> }

SourceVpcePool == { None, Some("vpce-1"), Some("vpce-2"), Some("vpce-3") }

Opt(S) == { None } \cup { Some(x) : x \in S }

SeqsUpTo(S, n) == UNION { [1..k -> S] : k \in 0..n }

PropsPool ==
    [ stage : Opt(StagePool),
      domains : Opt(SeqsUpTo(DomainPool, MaxDomains)),
      vpcEndpoint : Opt(VpcEndpointPool),
      apiBasePathMappingPath : Opt(BasePathPool),
      binaryMediaTypes : Opt(BinaryMediaTypesPool),
      minimumCompressionSize : Opt(CompressionSizePool) ]

\* ------------------------------------------------------ string conversions

\* Construct.toString(): the construct's path, its names joined by "/".
\* (A mutant: the last name only, node.id instead of node.path.)
ToStringLastName(d) == d.path[Len(d.path)]

RECURSIVE JoinPath(_)
JoinPath(names) ==
    IF Len(names) = 0 THEN <<>>
    ELSE IF Len(names) = 1 THEN names[1]
    ELSE names[1] \o <<"/">> \o JoinPath(Tail(names))

\* `${domainItem}` (line 94): the template literal calls domainItem.toString().
ToString(d) == JoinPath(d.path)

\* `-${domainItem}` (line 94).
MappingId(d) == <<"-">> \o ToString(d)

\* `Gateway-${id}` (line 79).
GatewayId(cid) == <<"G", "a", "t", "e", "w", "a", "y", "-">> \o cid

\* ------------------------------------------------------------ the policy

\* props.vpcEndpoint.vpcEndpointId (lines 61, 72); evaluated only when
\* props.vpcEndpoint is set, otherwise the property access throws.
VpcEndpointId(p) == Val(p.vpcEndpoint).vpcEndpointId

DenyStatementEquals(vpceId) ==
    [ effect |-> "Deny",
      principals |-> <<"AnyPrincipal">>,
      actions |-> <<"execute-api:Invoke">>,
      resources |-> <<"execute-api:/*/*/*">>,
      conditions |-> [ op |-> "StringEquals", key |-> "aws:sourceVpce", value |-> vpceId ] ]

\* lines 54-64
DenyStatement(vpceId) ==
    [ effect |-> "Deny",
      principals |-> <<"AnyPrincipal">>,
      actions |-> <<"execute-api:Invoke">>,
      resources |-> <<"execute-api:/*/*/*">>,
      conditions |-> [ op |-> "StringNotEquals", key |-> "aws:sourceVpce", value |-> vpceId ] ]

AllowStatementNegated(vpceId) ==
    [ effect |-> "Allow",
      principals |-> <<"AnyPrincipal">>,
      actions |-> <<"execute-api:Invoke">>,
      resources |-> <<"execute-api:/*/*/*">>,
      conditions |-> [ op |-> "StringNotEquals", key |-> "aws:sourceVpce", value |-> vpceId ] ]

\* lines 65-75
AllowStatement(vpceId) ==
    [ effect |-> "Allow",
      principals |-> <<"AnyPrincipal">>,
      actions |-> <<"execute-api:Invoke">>,
      resources |-> <<"execute-api:/*/*/*">>,
      conditions |-> [ op |-> "StringEquals", key |-> "aws:sourceVpce", value |-> vpceId ] ]

\* lines 52-77
PolicyDocument(vpceId) ==
    [ statements |-> <<DenyStatement(vpceId), AllowStatement(vpceId)>> ]

\* ------------------------------------------------------------ the gateway

EndpointConfigurationRegional(p) ==
    [ types |-> <<"REGIONAL">>, vpcEndpoints |-> <<Val(p.vpcEndpoint)>> ]

\* lines 81-84
EndpointConfiguration(p) ==
    [ types |-> <<"PRIVATE">>, vpcEndpoints |-> <<Val(p.vpcEndpoint)>> ]

DeployOptionsProd(p) == [ stageName |-> Some("prod") ]

\* lines 86-88: props.stage as it is (undefined stays undefined)
DeployOptions(p) == [ stageName |-> p.stage ]

\* A mutant: `props.minimumCompressionSize || undefined` drops the threshold 0.
MinimumCompressionSizeTruthy(p) ==
    IF IsSet(p.minimumCompressionSize) /\ Val(p.minimumCompressionSize) # 0
    THEN p.minimumCompressionSize ELSE None

\* line 90
MinimumCompressionSize(p) == p.minimumCompressionSize

\* line 89
BinaryMediaTypes(p) == p.binaryMediaTypes

\* lines 79-91: the id and the properties handed to new apigateway.RestApi
RestApi(cid, p, policy) ==
    [ name |-> GatewayId(cid),
      type |-> "RestApi",
      description |-> "This service serves an internal api gateway",
      endpointConfiguration |-> EndpointConfiguration(p),
      policy |-> policy,
      deployOptions |-> DeployOptions(p),
      binaryMediaTypes |-> BinaryMediaTypes(p),
      minimumCompressionSize |-> MinimumCompressionSize(p) ]

\* ----------------------------------------------------------- the mappings

BasePathAlwaysRoot(p) == ""

\* lines 98-100: props.apiBasePathMappingPath ? props.apiBasePathMappingPath : ""
\* (undefined and "" are both falsy)
BasePath(p) ==
    IF IsSet(p.apiBasePathMappingPath) /\ Val(p.apiBasePathMappingPath) # ""
    THEN Val(p.apiBasePathMappingPath) ELSE ""

\* The children of this construct of one type, in creation order.
OfType(cs, t) == SelectSeq(cs, LAMBDA c : c.type = t)

\* The name under which the construct tree files a child: the id with every
\* path separator "/" replaced by "--".
RECURSIVE SanitizeId(_)
SanitizeId(name) ==
    IF Len(name) = 0 THEN <<>>
    ELSE (IF name[1] = "/" THEN <<"-", "-">> ELSE <<name[1]>>) \o SanitizeId(Tail(name))

\* The scope already holds a child filed under the same normalised name.
HasChild(cs, name) == \E k \in 1..Len(cs) : SanitizeId(cs[k].name) = SanitizeId(name)

\* this.apiGateway.deploymentStage (line 97): the one stage the gateway
\* deploys, named by its deployOptions.
DeploymentStage(cs, gw) ==
    LET g == CHOOSE c \in { cs[k] : k \in 1..Len(cs) } : c.name = gw
    IN  [ restApi |-> gw, stageName |-> g.deployOptions.stageName ]

\* lines 94-101: the id and the properties handed to new apigateway.BasePathMapping
BasePathMapping(d, p, cs, gw) ==
    [ name |-> MappingId(d),
      type |-> "BasePathMapping",
      domainName |-> d,
      restApi |-> gw,
      stage |-> DeploymentStage(cs, gw),
      basePath |-> BasePath(p) ]

\* line 93: `for (const domainItem of props.domains)` throws a TypeError when
\* props.domains is undefined.  (A mutant: `props.domains ?? []`.)
IterableOrEmpty(p) == TRUE

Iterable(p) == IsSet(p.domains)

DomainsOf(p) == IF IsSet(p.domains) THEN Val(p.domains) ELSE <<>>

DomainAtReversed(p, k) == DomainsOf(p)[Len(DomainsOf(p)) - k + 1]

\* line 93: the k-th value the iteration yields
DomainAt(p, k) == DomainsOf(p)[k]

NextIndexSkipping(k) == k + 2

\* line 93: the iteration advances by one entry
NextIndex(k) == k + 1

\* ------------------------------------------------- evaluation of the policy

\* A condition of a statement against the request's aws:sourceVpce (None
\* when the request did not come through a VPC endpoint).
ConditionHolds(c, src) ==
    IF c.op = "StringEquals"
    THEN IsSet(src) /\ Val(src) = c.value
    ELSE ~(IsSet(src) /\ Val(src) = c.value)

Applies(st, src) == ConditionHolds(st.conditions, src)

Evaluate(policy, src) ==
    LET sts == policy.statements
        applying == { k \in 1..Len(sts) : Applies(sts[k], src) }
    IN  [ sourceVpce |-> src,
          applying |-> applying,
          deny |-> \E k \in applying : sts[k].effect = "Deny",
          allow |-> \E k \in applying : sts[k].effect = "Allow" ]

\* ------------------------------------------------------------------ actions

Init ==
    /\ id \in IdPool
    /\ props \in PropsPool
    /\ pc = "policy"
    /\ apiResourcePolicy = None
    /\ apiGateway = None
    /\ children = <<>>
    /\ attempts = <<>>
    /\ i = 1
    /\ lastInvoke = None

\* lines 52-77.  Reading props.vpcEndpoint.vpcEndpointId of an undefined
\* props.vpcEndpoint throws a TypeError.
BuildPolicy ==
    /\ pc = "policy"
    /\ IF IsSet(props.vpcEndpoint)
       THEN /\ apiResourcePolicy' = Some(PolicyDocument(VpcEndpointId(props)))
            /\ pc' = "gateway"
       ELSE /\ pc' = "thrown"
            /\ UNCHANGED apiResourcePolicy
    /\ UNCHANGED <<id, props, apiGateway, children, attempts, i, lastInvoke>>

\* lines 79-91
CreateGateway ==
    /\ pc = "gateway"
    /\ LET r == RestApi(id, props, Val(apiResourcePolicy))
       IN  IF HasChild(children, r.name)
           THEN /\ pc' = "thrown"
                /\ UNCHANGED <<children, apiGateway>>
           ELSE /\ children' = Append(children, r)
                /\ apiGateway' = Some(r.name)
                /\ pc' = "loop"
    /\ UNCHANGED <<id, props, apiResourcePolicy, attempts, i, lastInvoke>>

\* line 93, props.domains undefined
DomainsNotIterable ==
    /\ pc = "loop"
    /\ ~Iterable(props)
    /\ pc' = "thrown"
    /\ UNCHANGED <<id, props, apiResourcePolicy, apiGateway, children, attempts, i, lastInvoke>>

\* lines 93-102, one iteration
CreateMapping ==
    /\ pc = "loop"
    /\ Iterable(props)
    /\ i <= Len(DomainsOf(props))
    /\ LET d == DomainAt(props, i)
           m == BasePathMapping(d, props, children, Val(apiGateway))
       IN  /\ attempts' = Append(attempts, [ domain |-> d, name |-> m.name ])
           /\ IF HasChild(children, m.name)
              THEN /\ pc' = "thrown"
                   /\ UNCHANGED <<children, i>>
              ELSE /\ children' = Append(children, m)
                   /\ i' = NextIndex(i)
                   /\ pc' = "loop"
    /\ UNCHANGED <<id, props, apiResourcePolicy, apiGateway, lastInvoke>>

\* line 102-103: the iteration is exhausted and the constructor returns
Return ==
    /\ pc = "loop"
    /\ Iterable(props)
    /\ i > Len(DomainsOf(props))
    /\ pc' = "done"
    /\ UNCHANGED <<id, props, apiResourcePolicy, apiGateway, children, attempts, i, lastInvoke>>

\* An invoke request reaches the constructed gateway: its resource policy
\* (lines 52-77) is evaluated against the request's source VPC endpoint.
Invoke ==
    /\ pc = "done"
    /\ \E src \in SourceVpcePool :
         lastInvoke' = Some(Evaluate(Val(apiResourcePolicy), src))
    /\ UNCHANGED <<id, props, pc, apiResourcePolicy, apiGateway, children, attempts, i>>

Next ==
    \/ BuildPolicy
    \/ CreateGateway
    \/ DomainsNotIterable
    \/ CreateMapping
    \/ Return
    \/ Invoke

Spec == Init /\ [][Next]_vars

\* ------------------------------------------------------- notions of the claims

Terminated == pc \in { "done", "thrown" }

\* The required fields of InternalApiGatewayProps (lines 12, 17, 22) are set.
WellTyped == IsSet(props.stage) /\ IsSet(props.domains) /\ IsSet(props.vpcEndpoint)

Gateways == OfType(children, "RestApi")

Mappings == OfType(children, "BasePathMapping")

Domains == DomainsOf(props)

Distinct(ds) == \A j, k \in 1..Len(ds) : j # k => ds[j] # ds[k]

\* The position of the first entry that repeats an earlier entry.
FirstRepeat(ds) ==
    CHOOSE k \in 1..Len(ds) :
        /\ \E j \in 1..(k - 1) : ds[j] = ds[k]
        /\ Distinct(SubSeq(ds, 1, k - 1))

\* The names under which the construct tree would file the mappings of the
\* entries of the list: their identifiers, normalised.
FiledNames == [ k \in 1..Len(Domains) |-> SanitizeId(MappingId(Domains[k])) ]

\* No two entries of the list are filed under the same name.
CollisionFree == Distinct(FiledNames)

\* The first entry whose filed name is that of an earlier entry.
FirstCollision == FirstRepeat(FiledNames)

\* One gateway, one mapping per entry of the list, each mapping pointing at
\* that gateway and at its deployed stage.
OneGatewayAndAllMappings ==
    /\ pc = "done"
    /\ Len(Gateways) = 1
    /\ Len(Mappings) = Len(Domains)
    /\ \A k \in 1..Len(Mappings) :
         /\ Mappings[k].restApi = Gateways[1].name
         /\ Mappings[k].stage = [ restApi |-> Gateways[1].name,
                                  stageName |-> Gateways[1].deployOptions.stageName ]

\* C1, as stated: every construction from a configuration with N domain
\* entries ends with one gateway and N mappings, all pointing at that
\* gateway and its stage.
C1_Original == (WellTyped /\ Terminated) => OneGatewayAndAllMappings

\* C1, with "pairwise distinct entries" in place of "every list": refuted by
\* two distinct domains whose identifiers are filed under one name.
C1_DistinctEntries ==
    (WellTyped /\ Terminated /\ Distinct(Domains)) => OneGatewayAndAllMappings

\* C1, amended: every construction from a configuration whose N domain
\* entries have pairwise distinct mapping identifiers, compared as the
\* construct tree files them ("/" as "--"), ends with exactly one gateway
\* and exactly N mappings (N >= 0), every mapping pointing at that gateway
\* and its one deployed stage; otherwise the construction is aborted at the
\* first entry whose identifier is taken, and only the mappings of the
\* entries before it exist.
C1_Amended ==
    (WellTyped /\ Terminated) =>
        IF CollisionFree
        THEN OneGatewayAndAllMappings
        ELSE /\ pc = "thrown"
             /\ Len(Gateways) = 1
             /\ Len(Mappings) = FirstCollision - 1

C1_Witness ==
    /\ WellTyped
    /\ pc = "done"
    /\ Len(Domains) >= 2
    /\ Len(Mappings) = Len(Domains)

\* C2: the policy document holds exactly two statements, one Deny and one
\* Allow, both for execute-api:Invoke on execute-api:/*/*/* and any
\* principal, conditioned on aws:sourceVpce and the configured endpoint id,
\* the Deny by StringNotEquals and the Allow by StringEquals.
C2_PolicyShape ==
    IsSet(apiResourcePolicy) =>
        LET sts == Val(apiResourcePolicy).statements
        IN  /\ Len(sts) = 2
            /\ { sts[k].effect : k \in 1..2 } = { "Deny", "Allow" }
            /\ \A k \in 1..2 :
                 /\ sts[k].actions = <<"execute-api:Invoke">>
                 /\ sts[k].resources = <<"execute-api:/*/*/*">>
                 /\ sts[k].principals = <<"AnyPrincipal">>
                 /\ sts[k].conditions.key = "aws:sourceVpce"
                 /\ sts[k].conditions.value = Val(props.vpcEndpoint).vpcEndpointId
                 /\ sts[k].conditions.op =
                      (IF sts[k].effect = "Deny" THEN "StringNotEquals" ELSE "StringEquals")

C2_Witness ==
    /\ IsSet(apiResourcePolicy)
    /\ Val(props.vpcEndpoint).vpcEndpointId = "vpce-2"
    /\ pc = "gateway"

\* C3: for every request exactly one statement of the policy applies: the
\* Allow statement if and only if the request's source VPC endpoint is the
\* configured one, the Deny statement otherwise (also when the request has
\* no source VPC endpoint); an invoke is permitted only from the configured
\* endpoint.
C3_ExactlyOneApplies ==
    IsSet(lastInvoke) =>
        LET r == Val(lastInvoke)
            same == r.sourceVpce = Some(Val(props.vpcEndpoint).vpcEndpointId)
        IN  /\ Cardinality(r.applying) = 1
            /\ r.allow <=> same
            /\ r.deny <=> ~same
            /\ (r.allow /\ ~r.deny) => same

C3_Witness ==
    /\ IsSet(lastInvoke)
    /\ Val(lastInvoke).sourceVpce = None
    /\ Val(lastInvoke).deny

C3_WitnessAllowed ==
    /\ IsSet(lastInvoke)
    /\ Val(lastInvoke).sourceVpce = Some("vpce-2")
    /\ Val(lastInvoke).allow

\* C4: every mapping of one construction carries the same base path: the
\* empty string when apiBasePathMappingPath is unset, the configured value
\* when it is set.
C4_BasePath ==
    \A k \in 1..Len(Mappings) :
        Mappings[k].basePath =
            (IF IsSet(props.apiBasePathMappingPath)
             THEN Val(props.apiBasePathMappingPath) ELSE "")

C4_Witness ==
    /\ props.apiBasePathMappingPath = Some("v1")
    /\ Len(Mappings) >= 2
    /\ \A k \in 1..Len(Mappings) : Mappings[k].basePath = "v1"

C4_WitnessUnset ==
    /\ props.apiBasePathMappingPath = None
    /\ Len(Mappings) >= 2
    /\ \A k \in 1..Len(Mappings) : Mappings[k].basePath = ""

\* C5: the configured stage string is, unmodified, the stage name handed to
\* the gateway's deployment, and the stage of every mapping is that stage of
\* that gateway.
C5_StageVerbatim ==
    IsSet(props.stage) =>
        /\ \A k \in 1..Len(Gateways) :
             Gateways[k].deployOptions.stageName = Some(Val(props.stage))
        /\ \A k \in 1..Len(Mappings) :
             /\ Mappings[k].stage.stageName = Some(Val(props.stage))
             /\ Mappings[k].stage.restApi = Val(apiGateway)

C5_Witness ==
    /\ props.stage = Some("dev")
    /\ pc = "done"
    /\ Len(Mappings) >= 1
    /\ Gateways[1].deployOptions.stageName = Some("dev")

\* C6: the gateway carries binaryMediaTypes and minimumCompressionSize
\* exactly as configured: none when omitted, the given list and threshold
\* (0 included) when supplied.
C6_PassThrough ==
    \A k \in 1..Len(Gateways) :
        /\ Gateways[k].binaryMediaTypes = props.binaryMediaTypes
        /\ Gateways[k].minimumCompressionSize = props.minimumCompressionSize

C6_Witness ==
    /\ Len(Gateways) = 1
    /\ props.minimumCompressionSize = Some(0)
    /\ props.binaryMediaTypes = Some(<<"application/octet-stream">>)
    /\ Gateways[1].minimumCompressionSize = Some(0)

C6_WitnessOmitted ==
    /\ Len(Gateways) = 1
    /\ props.minimumCompressionSize = None
    /\ props.binaryMediaTypes = None
    /\ Gateways[1].minimumCompressionSize = None
    /\ Gateways[1].binaryMediaTypes = None

\* C7: the gateway has the endpoint type PRIVATE only, exactly the one
\* configured VPC endpoint, and the policy document built before it, whose
\* statements all name that endpoint's identifier.
C7_PrivateGateway ==
    \A k \in 1..Len(Gateways) :
        LET g == Gateways[k]
        IN  /\ g.endpointConfiguration.types = <<"PRIVATE">>
            /\ g.endpointConfiguration.vpcEndpoints = <<Val(props.vpcEndpoint)>>
            /\ g.policy = Val(apiResourcePolicy)
            /\ \A n \in 1..Len(g.policy.statements) :
                 g.policy.statements[n].conditions.value =
                     g.endpointConfiguration.vpcEndpoints[1].vpcEndpointId

C7_Witness ==
    /\ Len(Gateways) = 1
    /\ Val(props.vpcEndpoint).vpcEndpointId = "vpce-1"
    /\ Len(Gateways[1].policy.statements) = 2

\* The optional fields reach the resources as they were given.
OptionalsPassedThrough ==
    /\ Gateways[1].binaryMediaTypes = props.binaryMediaTypes
    /\ Gateways[1].minimumCompressionSize = props.minimumCompressionSize
    /\ Gateways[1].deployOptions.stageName = props.stage
    /\ \A k \in 1..Len(Mappings) :
         ~IsSet(props.apiBasePathMappingPath) => Mappings[k].basePath = ""

\* C8, as stated: a construction fails with an exception when a required
\* field (stage, domains, vpcEndpoint) is absent, and succeeds, passing the
\* optional values through, when only optional fields are absent.
C8_Original ==
    Terminated =>
        IF WellTyped
        THEN pc = "done" /\ OptionalsPassedThrough
        ELSE pc = "thrown"

\* C8, amended: a construction fails with an exception when vpcEndpoint is
\* absent (before any resource is created) or domains is absent (after the
\* gateway is created).  An absent stage raises no exception: it is passed
\* on as an undefined stage name.  When vpcEndpoint and domains are present
\* and no two entries have mapping identifiers filed under one name, the
\* construction succeeds and the optional values are passed through.
C8_Amended ==
    Terminated =>
        /\ ~IsSet(props.vpcEndpoint) => (pc = "thrown" /\ children = <<>>)
        /\ (IsSet(props.vpcEndpoint) /\ ~IsSet(props.domains)) =>
               (pc = "thrown" /\ Len(Gateways) = 1 /\ Len(Mappings) = 0)
        /\ (IsSet(props.vpcEndpoint) /\ IsSet(props.domains) /\ CollisionFree) =>
               (pc = "done" /\ OptionalsPassedThrough)

C8_Witness ==
    /\ pc = "done"
    /\ ~IsSet(props.stage)
    /\ Len(Mappings) >= 1
    /\ Gateways[1].deployOptions.stageName = None

C8_WitnessNoDomains ==
    /\ pc = "thrown"
    /\ ~IsSet(props.domains)
    /\ Len(Gateways) = 1

C8_WitnessNoEndpoint ==
    /\ pc = "thrown"
    /\ ~IsSet(props.vpcEndpoint)

\* The creations keep the order of the list: the k-th attempt and the k-th
\* mapping are for the k-th entry, and no attempt precedes the gateway.
InListOrder ==
    /\ Len(attempts) <= Len(Domains)
    /\ \A k \in 1..Len(attempts) : attempts[k].domain = Domains[k]
    /\ Len(Mappings) <= Len(attempts)
    /\ \A k \in 1..Len(Mappings) : Mappings[k].domainName = Domains[k]
    /\ Len(attempts) > 0 => (Len(children) > 0 /\ children[1].type = "RestApi")
    /\ \A k \in 2..Len(children) : children[k].type = "BasePathMapping"

Occurrences(ds, d) == Cardinality({ k \in 1..Len(ds) : ds[k] = d })

AttemptsOf(d) == Cardinality({ k \in 1..Len(attempts) : attempts[k].domain = d })

\* C9, as stated: the mappings are created in list order after the gateway,
\* and a domain that appears m times in the list is attempted m times.
C9_Original ==
    (WellTyped /\ Terminated) =>
        /\ InListOrder
        /\ \A d \in DomainPool : AttemptsOf(d) = Occurrences(Domains, d)

\* C9, amended: the mappings are created in list order, without
\* deduplication and only after the gateway: the k-th mapping created is
\* for the k-th entry.  The entries are attempted in order up to and
\* including the first entry whose identifier is filed under the name of an
\* earlier entry, where the construction is aborted: a list without such
\* an entry has every entry attempted once, a repeated domain is attempted
\* twice at most, and no entry after the first collision is attempted.
C9_Amended ==
    /\ InListOrder
    /\ (Terminated /\ IsSet(props.vpcEndpoint) /\ IsSet(props.domains)) =>
          /\ Len(attempts) =
               (IF CollisionFree THEN Len(Domains) ELSE FirstCollision)
          /\ Len(Mappings) =
               (IF CollisionFree THEN Len(Domains) ELSE FirstCollision - 1)
          /\ \A d \in DomainPool : AttemptsOf(d) <= 2

C9_Witness ==
    /\ pc = "thrown"
    /\ Len(Domains) = 3
    /\ Len(attempts) = 2
    /\ Len(Mappings) = 1
    /\ Domains[1] = Domains[2]
    /\ Domains[3] # Domains[1]

C9_WitnessDistinct ==
    /\ pc = "done"
    /\ Len(attempts) = 3
    /\ Len(Mappings) = 3

\* The string form of a domain: the names of its path, separated by "/".
RECURSIVE StringForm(_)
StringForm(path) ==
    IF Len(path) = 1 THEN path[1]
    ELSE StringForm(SubSeq(path, 1, Len(path) - 1)) \o <<"/">> \o path[Len(path)]

\* The identifiers are "-" and the domain's string form, the gateway's is
\* "Gateway-<id>", and no mapping's identifier is the gateway's.
IdentifiersDerived ==
    /\ \A k \in 1..Len(attempts) :
         /\ attempts[k].name = <<"-">> \o StringForm(attempts[k].domain.path)
         /\ attempts[k].name # Val(apiGateway)
         /\ SanitizeId(attempts[k].name) # SanitizeId(Val(apiGateway))
    /\ IsSet(apiGateway) =>
         Val(apiGateway) = <<"G", "a", "t", "e", "w", "a", "y", "-">> \o id

\* C10, as stated: the identifier of a mapping is "-" followed by the
\* string form of its domain, two entries get the same identifier exactly
\* when they are the same domain, a second entry for a domain collides with
\* the first, entries for distinct domains never collide, and no mapping
\* identifier equals the gateway's identifier "Gateway-<id>".
C10_Original ==
    /\ IdentifiersDerived
    /\ \A j, k \in 1..Len(attempts) :
         (attempts[j].name = attempts[k].name) <=>
             (attempts[j].domain = attempts[k].domain)
    /\ Len(attempts) > 0 =>
         ((pc = "thrown") <=>
             \E j \in 1..(Len(attempts) - 1) :
                 attempts[j].domain = attempts[Len(attempts)].domain)

\* C10, amended: the identifier of a mapping is "-" followed by the string
\* form of its domain and depends on nothing else, so two entries get the
\* same identifier exactly when their domains have the same string form
\* (the same domain twice, or two domain objects of equal string form).
\* An entry collides, aborting the construction, exactly when its identifier
\* and an earlier entry's are filed under one name by the construct tree,
\* which reads "/" as "--": equal identifiers always collide, different ones
\* only if they differ in nothing but "/" against "--".  No two children are
\* filed under one name, and no mapping identifier equals or collides with
\* the gateway's identifier "Gateway-<id>".
C10_Amended ==
    /\ IdentifiersDerived
    /\ \A j, k \in 1..Len(attempts) :
         /\ (attempts[j].name = attempts[k].name) <=>
                (StringForm(attempts[j].domain.path) = StringForm(attempts[k].domain.path))
         /\ (attempts[j].domain = attempts[k].domain) =>
                (attempts[j].name = attempts[k].name)
    /\ Len(attempts) > 0 =>
         ((pc = "thrown") <=>
             \E j \in 1..(Len(attempts) - 1) :
                 SanitizeId(attempts[j].name) = SanitizeId(attempts[Len(attempts)].name))
    /\ \A j \in 1..Len(attempts) : \A k \in 1..(j - 1) :
         (attempts[j].name = attempts[k].name) => (pc = "thrown" /\ j = Len(attempts))
    /\ Distinct([ k \in 1..Len(children) |-> SanitizeId(children[k].name) ])

\* Two distinct domains of different identifiers collide.
C10_Witness ==
    /\ pc = "thrown"
    /\ Len(attempts) = 2
    /\ attempts[1].domain.obj = 2
    /\ attempts[2].domain.obj = 3
    /\ attempts[1].name # attempts[2].name

\* Two distinct domain objects of equal string form get one identifier.
C10_WitnessEqualForm ==
    /\ pc = "thrown"
    /\ Len(attempts) = 2
    /\ attempts[1].domain # attempts[2].domain
    /\ attempts[1].name = attempts[2].name

\* The same domain twice.
C10_WitnessSameDomain ==
    /\ pc = "thrown"
    /\ Len(attempts) = 3
    /\ attempts[2].domain = attempts[3].domain
    /\ attempts[1].domain.obj = 1

====
